---- MODULE Spec2Model ----
(***************************************************************************)
(* xchainer/routines/indexing.cc: view indexing (internal::At), the two    *)
(* scatter-accumulate helpers (AddAt, view form and axis form), the axis    *)
(* gather (Take) and the backward closures each of them registers.          *)
(*                                                                          *)
(* Every function is modelled as the sequence of its statements; pc names  *)
(* the statement about to run and cont the callers waiting for a return.   *)
(* Offsets and strides are counted in buffer cells.                         *)
(***************************************************************************)
EXTENDS Integers, Sequences, FiniteSets, TLC

VARIABLES
    heap,     \* the data buffers: heap[d] maps a cell offset to its value
    pc,       \* the statement about to run
    cont,     \* return addresses of the callers, innermost first
    retval,   \* the array returned by the call that returned last
    result,   \* the array returned to the library's caller
    err,      \* the exception that ended the program, if any
    ub,       \* kinds of undefined behaviour that have happened
    call,     \* the arguments of the library call under analysis
    ncall,    \* number of operation calls started so far
    at,       \* frame of internal::At
    aav,      \* frame of the view form of AddAt
    tk,       \* frame of Take
    aax,      \* frame of the axis form of AddAt
    graph,    \* the closures registered with BackwardBuilder, in order
    ran,      \* indices in graph of the closures the engine has invoked
    bw,       \* the closure being run (index in graph), 0 if none
    gouts,    \* gouts[i]: the output gradient the engine gave closure i
    grads     \* grads[i]: the input gradient closure i assigned

vars == <<heap, pc, cont, retval, result, err, ub, call, ncall,
          at, aav, tk, aax, graph, ran, bw, gouts, grads>>

\* ------------------------------------------------------------------ bounds

\* Largest dimension size of an input array.
MaxDim == 2
\* Largest number of entries of an index specification sequence.
MaxLen == 2

Ranks == {0, 1, 2}
Dims == 0 .. MaxDim
Dtypes == {"float32", "int64"}
kInt64 == "int64"

\* What a read past the end of a Shape or Strides may yield.
GarbageValues == {0, 2}

\* ------------------------------------------------------------ arithmetic

Max(x, y) == IF x >= y THEN x ELSE y
Min(x, y) == IF x <= y THEN x ELSE y

\* C++ integer division and remainder truncate toward zero (b # 0).
CDiv(a, b) ==
    LET q == (IF a >= 0 THEN a ELSE -a) \div (IF b >= 0 THEN b ELSE -b)
    IN IF (a >= 0) = (b >= 0) THEN q ELSE -q

CMod(a, b) == a - b * CDiv(a, b)

RECURSIVE Product(_)
Product(s) == IF s = <<>> THEN 1 ELSE Head(s) * Product(Tail(s))

RECURSIVE Dot(_, _)
Dot(p, s) == IF p = <<>> THEN 0 ELSE Head(p) * Head(s) + Dot(Tail(p), Tail(s))

RECURSIVE SeqsUpTo(_, _)
SeqsUpTo(S, n) ==
    IF n = 0 THEN {<<>>}
    ELSE LET shorter == SeqsUpTo(S, n - 1)
         IN shorter \cup {Append(q, x) : q \in shorter, x \in S}

Take1(s, n) == SubSeq(s, 1, n)
Drop(s, n) == SubSeq(s, n + 1, Len(s))

\* ---------------------------------------------------------------- arrays

Arr(shape, strides, offset, dtype, data, grad) ==
    [shape |-> shape, strides |-> strides, offset |-> offset,
     dtype |-> dtype, data |-> data, grad |-> grad]

NoArray == Arr(<<>>, <<>>, 0, "none", 0, FALSE)

Ndim(a) == Len(a.shape)

\* Strides of a C-contiguous array of the given shape.
RECURSIVE ContiguousStrides(_)
ContiguousStrides(shape) ==
    IF shape = <<>> THEN <<>>
    ELSE <<Product(Tail(shape))>> \o ContiguousStrides(Tail(shape))

\* All valid positions (0-based index tuples) of an array of the given shape.
RECURSIVE Positions(_)
Positions(shape) ==
    IF shape = <<>> THEN {<<>>}
    ELSE {<<i>> \o p : i \in 0 .. (Head(shape) - 1), p \in Positions(Tail(shape))}

Address(a, pos) == a.offset + Dot(pos, a.strides)

InBuffer(h, a, pos) == Address(a, pos) \in DOMAIN h[a.data]

Elem(h, a, pos) == h[a.data][Address(a, pos)]

\* Row-major rank of a position.
Linear(shape, pos) == Dot(pos, ContiguousStrides(shape))

\* The array of a's elements by position, independent of a's layout.
Contents(h, a) == [p \in Positions(a.shape) |-> Elem(h, a, p)]

\* A fresh C-contiguous array whose element at row-major rank i is f[i].
NewBuffer(shape, f) == [c \in 0 .. (Product(shape) - 1) |-> f[c]]

FreshArray(h, shape, dtype, grad) ==
    Arr(shape, ContiguousStrides(shape), 0, dtype, Len(h) + 1, grad)

\* ------------------------------------------------------ index specification

kSingleElement == "kSingleElement"
kSlice == "kSlice"
kNewAxis == "kNewAxis"

\* An ArrayIndex; the fields a tag does not use are zero.
ArrayIndex(tag, index, hasStart, start, hasStop, stop, step) ==
    [tag |-> tag, index |-> index, hasStart |-> hasStart, start |-> start,
     hasStop |-> hasStop, stop |-> stop, step |-> step]

SingleElement(i) == ArrayIndex(kSingleElement, i, FALSE, 0, FALSE, 0, 1)
NewAxis == ArrayIndex(kNewAxis, 0, FALSE, 0, FALSE, 0, 1)
SliceFrom(start, step) == ArrayIndex(kSlice, 0, TRUE, start, FALSE, 0, step)
SliceTo(stop, step) == ArrayIndex(kSlice, 0, FALSE, 0, TRUE, stop, step)
SliceAll(step) == ArrayIndex(kSlice, 0, FALSE, 0, FALSE, 0, step)

\* Slice::GetStart, GetStop, GetLength: standard slice normalisation.
GetStart(slice, dim) ==
    IF slice.hasStart
    THEN LET s == IF slice.start < 0 THEN slice.start + dim ELSE slice.start
         IN IF slice.step > 0 THEN Max(0, Min(s, dim)) ELSE Max(-1, Min(s, dim - 1))
    ELSE IF slice.step > 0 THEN 0 ELSE dim - 1

GetStop(slice, dim) ==
    IF slice.hasStop
    THEN LET s == IF slice.stop < 0 THEN slice.stop + dim ELSE slice.stop
         IN IF slice.step > 0 THEN Max(0, Min(s, dim)) ELSE Max(-1, Min(s, dim - 1))
    ELSE IF slice.step > 0 THEN dim ELSE -1

GetLength(slice, dim) ==
    LET start == GetStart(slice, dim)
        stop == GetStop(slice, dim)
        step == slice.step
    IN IF step > 0
       THEN Max(0, CDiv(stop - start + step - 1, step))
       ELSE Max(0, CDiv(start - stop - step - 1, -step))

\* ---------------------------------------------------------- collaborators

RECURSIVE Unravel(_, _)
\* The position whose row-major rank in an array of the given shape is i.
Unravel(shape, i) ==
    IF shape = <<>> THEN <<>>
    ELSE LET inner == Product(Tail(shape))
         IN <<i \div inner>> \o Unravel(Tail(shape), i % inner)

\* Zeros(shape, dtype, device): a fresh zero-filled constant array.
ZerosBuffer(shape) == NewBuffer(shape, [c \in 0 .. (Product(shape) - 1) |-> 0])

\* Empty / EmptyLike: a fresh array whose cells hold nothing meaningful yet.
Uninitialized == -1000
EmptyBuffer(shape) ==
    NewBuffer(shape, [c \in 0 .. (Product(shape) - 1) |-> Uninitialized])

\* Array::AsConstant(CopyKind::kCopy): a fresh C-contiguous copy, not tracked.
CopyBuffer(h, a) ==
    NewBuffer(a.shape, [c \in 0 .. (Product(a.shape) - 1) |->
                            Elem(h, a, Unravel(a.shape, c))])

\* Device::Add(x1, x2, out): out[p] = x1[p] + x2[p], positions in row-major
\* order, each read seeing the writes made before it.  A cell outside the
\* buffer is left alone.
RECURSIVE DeviceAddFrom(_, _, _, _, _)
DeviceAddFrom(h, x1, x2, out, i) ==
    IF i >= Product(out.shape) THEN h
    ELSE LET p == Unravel(out.shape, i)
             ok == InBuffer(h, x1, p) /\ InBuffer(h, x2, p) /\ InBuffer(h, out, p)
             h2 == IF ok
                   THEN [h EXCEPT ![out.data][Address(out, p)] =
                                      Elem(h, x1, p) + Elem(h, x2, p)]
                   ELSE h
         IN DeviceAddFrom(h2, x1, x2, out, i + 1)

DeviceAdd(h, x1, x2, out) == DeviceAddFrom(h, x1, x2, out, 0)

\* ------------------------------------------------------------- exceptions

Error(type, text, x, y, z, required, given) ==
    [type |-> type, text |-> text, x |-> x, y |-> y, z |-> z,
     required |-> required, given |-> given]

NoError == Error("none", "", 0, 0, 0, "", "")

\* DimensionError{"Index ", index, " is out of bounds for axis ", i_in,
\*                " with size ", dim}
IndexOutOfBounds(index, i_in, dim) ==
    Error("DimensionError", "Index x is out of bounds for axis y with size z",
          index, i_in, dim, "", "")

\* CheckEqual(Dtype, Dtype) and CheckEqual(Shape, Shape)
DtypeMismatch == Error("DtypeError", "dtype mismatch", 0, 0, 0, "", "")
ShapeMismatch == Error("DimensionError", "shape mismatch", 0, 0, 0, "", "")

GetDtypeName(dtype) == dtype

\* Lines 150-152: DtypeError("Only " + name(kInt64) + " is supported as
\* indices, but given " + name(indices.dtype())).
IndicesDtypeError(dtype) ==
    Error("DtypeError", "Only required is supported as indices, but given given",
          0, 0, 0, GetDtypeName(kInt64), GetDtypeName(dtype))

\* internal::NormalizeAxis on an axis outside [-ndim, ndim).
AxisOutOfRange(axis, ndim) ==
    Error("DimensionError", "Axis x is out of range for ndim y", axis, ndim, 0, "", "")

\* ------------------------------------------------------- calls and returns

\* A closure handed to BackwardBuilder::Define: the operation and input it
\* belongs to, the values it captured, and the output it is attached to.
Closure(op, line, input, id, indices, index_array, axis, a_shape, a_dtype, out) ==
    [op |-> op, line |-> line, input |-> input, id |-> id, indices |-> indices,
     index_array |-> index_array, axis |-> axis, a_shape |-> a_shape,
     a_dtype |-> a_dtype, out |-> out]

\* A return to the innermost caller.  "main" is the library's caller and
\* "closure" the assignment to bctx.input_grad() that ends a closure body.
Return(v) ==
    LET to == Head(cont) IN
    /\ retval' = v
    /\ cont' = Tail(cont)
    /\ pc' = IF to \in {"main", "closure"} THEN "idle" ELSE to
    /\ result' = IF to = "main" THEN v ELSE result
    /\ grads' = IF to = "closure" THEN Append(grads, [closure |-> bw, gin |-> v])
                ELSE grads
    /\ bw' = IF to = "closure" THEN 0 ELSE bw

\* An exception: nothing here catches, so it unwinds every caller.
Throw(e) ==
    /\ pc' = "error"
    /\ err' = e
    /\ cont' = <<>>
    /\ UNCHANGED <<retval, result, grads, bw>>

\* ------------------------------------------------------------ internal::At

\* Lines 59-63: the locals of At on entry.
AtFrame(a, indices, id) ==
    [a |-> a, indices |-> indices, id |-> id, k |-> 1, i_in |-> 0,
     out_shape |-> <<>>, out_strides |-> <<>>, out_offset |-> a.offset,
     out |-> NoArray]

NoAt == AtFrame(NoArray, <<>>, 0)

\* The pairs <<a.shape()[i], a.strides()[i]>> a read may yield: inside the
\* rank the stored values, past it whatever the memory holds.
AxisAt(a, i) ==
    IF i < Ndim(a) THEN {<<a.shape[i + 1], a.strides[i + 1]>>}
    ELSE {<<g, g>> : g \in GarbageValues}

PastRank(f) == IF f.i_in >= Ndim(f.a) THEN {"read_past_rank"} ELSE {}

\* Line 68 with the upper comparison off by one.
OutOfBounds_UpperOffByOne(index, dim) == index < -dim \/ dim < index

\* Line 68.
OutOfBounds(index, dim) == index < -dim \/ dim <= index

\* Line 71: (index.index() + dim) % dim.
NormalizedIndex(index, dim) == CMod(index + dim, dim)

AtEntry == pc = "at_loop" /\ at.k <= Len(at.indices)

\* Lines 66-74.
At_kSingleElement ==
    /\ AtEntry
    /\ at.indices[at.k].tag = kSingleElement
    /\ \E axis \in AxisAt(at.a, at.i_in) :
         LET dim == axis[1]
             stride == axis[2]
             index == at.indices[at.k].index
         IN
         IF OutOfBounds(index, dim)
         THEN /\ Throw(IndexOutOfBounds(index, at.i_in, dim))
              /\ ub' = ub \cup PastRank(at)
              /\ UNCHANGED at
         ELSE /\ at' = [at EXCEPT !.out_offset = @ + stride * (IF dim = 0 THEN 0 ELSE NormalizedIndex(index, dim)),
                                  !.i_in = @ + 1, !.k = @ + 1]
              /\ ub' = ub \cup PastRank(at) \cup (IF dim = 0 THEN {"modulo_by_zero"} ELSE {})
              /\ UNCHANGED <<pc, cont, retval, result, err, grads, bw>>
    /\ UNCHANGED <<heap, call, ncall, aav, tk, aax, graph, ran, gouts>>

\* Lines 75-83.
At_kSlice ==
    /\ AtEntry
    /\ at.indices[at.k].tag = kSlice
    /\ \E axis \in AxisAt(at.a, at.i_in) :
         LET dim == axis[1]
             stride == axis[2]
             slice == at.indices[at.k]
             slice_length == GetLength(slice, dim)
         IN at' = [at EXCEPT !.out_offset = @ + stride * GetStart(slice, dim),
                             !.out_shape = Append(@, slice_length),
                             !.out_strides = Append(@, stride * slice.step),
                             !.i_in = @ + 1, !.k = @ + 1]
    /\ ub' = ub \cup PastRank(at)
    /\ UNCHANGED <<heap, pc, cont, retval, result, err, call, ncall, aav, tk, aax,
                   graph, ran, bw, gouts, grads>>

\* Lines 67 and 77 when the read past the rank faults instead of yielding a value.
At_ReadFault ==
    /\ AtEntry
    /\ at.indices[at.k].tag \in {kSingleElement, kSlice}
    /\ at.i_in >= Ndim(at.a)
    /\ pc' = "fault"
    /\ ub' = ub \cup PastRank(at)
    /\ UNCHANGED <<heap, cont, retval, result, err, call, ncall, at, aav, tk, aax,
                   graph, ran, bw, gouts, grads>>

\* Lines 84-87.
At_kNewAxis ==
    /\ AtEntry
    /\ at.indices[at.k].tag = kNewAxis
    /\ at' = [at EXCEPT !.out_shape = Append(@, 1),
                        !.out_strides = Append(@, 0),
                        !.k = @ + 1]
    /\ UNCHANGED <<heap, pc, cont, retval, result, err, ub, call, ncall, aav, tk, aax,
                   graph, ran, bw, gouts, grads>>

\* Lines 92-95: the dimensions from i_in on, as they are.
RemainingShape(f) == IF f.i_in < Ndim(f.a) THEN Drop(f.a.shape, f.i_in) ELSE <<>>
RemainingStrides(f) == IF f.i_in < Ndim(f.a) THEN Drop(f.a.strides, f.i_in) ELSE <<>>

\* Line 97: a view on a's buffer.
MakeArray(shape, strides, dtype, data, offset) ==
    Arr(shape, strides, offset, dtype, data, FALSE)

\* Lines 92-97.
At_MakeArray ==
    /\ pc = "at_loop"
    /\ at.k > Len(at.indices)
    /\ at' = [at EXCEPT !.out = MakeArray(at.out_shape \o RemainingShape(at),
                                          at.out_strides \o RemainingStrides(at),
                                          at.a.dtype, at.a.data, at.out_offset)]
    /\ pc' = "at_backward"
    /\ UNCHANGED <<heap, cont, retval, result, err, ub, call, ncall, aav, tk, aax,
                   graph, ran, bw, gouts, grads>>

\* Lines 99-106: what At registers for an output out.
AtClosures(f) ==
    IF f.a.grad
    THEN <<Closure("get_item", 101, "a", f.id, f.indices, NoArray, 0, f.a.shape, f.a.dtype,
                   [f.out EXCEPT !.grad = TRUE])>>
    ELSE <<>>

\* Lines 99-108.
At_Backward ==
    /\ pc = "at_backward"
    /\ graph' = graph \o AtClosures(at)
    /\ at' = [at EXCEPT !.out.grad = at.a.grad]
    /\ Return(at'.out)
    /\ UNCHANGED <<heap, err, ub, call, ncall, aav, tk, aax, ran, gouts>>

\* ------------------------------------------------------ AddAt, view form

AddAtFrame(a, indices, b, id) ==
    [a |-> a, indices |-> indices, b |-> b, id |-> id,
     out |-> NoArray, out_view |-> NoArray]

NoAddAt == AddAtFrame(NoArray, <<>>, NoArray, 0)

\* Lines 32-37 with out sharing a's buffer (a view where line 36 asks for a copy).
AddAt_Copy_ViewOfA ==
    /\ pc = "addat_copy"
    /\ IF aav.a.dtype # aav.b.dtype
       THEN /\ Throw(DtypeMismatch)
            /\ UNCHANGED <<heap, ncall, at, aav>>
       ELSE LET out == [aav.a EXCEPT !.grad = FALSE] IN
            /\ heap' = heap
            /\ aav' = [aav EXCEPT !.out = out]
            /\ ncall' = ncall + 1
            /\ at' = AtFrame(out, aav.indices, ncall + 1)
            /\ pc' = "at_loop"
            /\ cont' = <<"addat_add">> \o cont
            /\ UNCHANGED <<retval, result, err, grads, bw>>
    /\ UNCHANGED <<ub, call, tk, aax, graph, ran, gouts>>

\* Lines 32-37 without the dtype check of line 34.
AddAt_Copy_NoDtypeCheck ==
    /\ pc = "addat_copy"
    /\ LET out == FreshArray(heap, aav.a.shape, aav.a.dtype, FALSE) IN
       /\ heap' = Append(heap, CopyBuffer(heap, aav.a))
       /\ aav' = [aav EXCEPT !.out = out]
       /\ ncall' = ncall + 1
       /\ at' = AtFrame(out, aav.indices, ncall + 1)
       /\ pc' = "at_loop"
       /\ cont' = <<"addat_add">> \o cont
       /\ UNCHANGED <<retval, result, err, grads, bw>>
    /\ UNCHANGED <<ub, call, tk, aax, graph, ran, gouts>>

\* Lines 32-37: the dtype check, the private copy, and the call out.At(indices).
AddAt_Copy ==
    /\ pc = "addat_copy"
    /\ IF aav.a.dtype # aav.b.dtype
       THEN /\ Throw(DtypeMismatch)
            /\ UNCHANGED <<heap, ncall, at, aav>>
       ELSE LET out == FreshArray(heap, aav.a.shape, aav.a.dtype, FALSE) IN
            /\ heap' = Append(heap, CopyBuffer(heap, aav.a))
            /\ aav' = [aav EXCEPT !.out = out]
            /\ ncall' = ncall + 1
            /\ at' = AtFrame(out, aav.indices, ncall + 1)
            /\ pc' = "at_loop"
            /\ cont' = <<"addat_add">> \o cont
            /\ UNCHANGED <<retval, result, err, grads, bw>>
    /\ UNCHANGED <<ub, call, tk, aax, graph, ran, gouts>>

\* Lines 37-42: out_view is what At returned; the shape check; the add.
AddAt_Add ==
    /\ pc = "addat_add"
    /\ LET out_view == retval IN
       IF out_view.shape # aav.b.shape
       THEN /\ Throw(ShapeMismatch)
            /\ UNCHANGED <<heap, aav>>
       ELSE /\ heap' = DeviceAdd(heap, aav.b, out_view, out_view)
            /\ aav' = [aav EXCEPT !.out_view = out_view]
            /\ pc' = "addat_backward"
            /\ UNCHANGED <<cont, retval, result, err, grads, bw>>
    /\ UNCHANGED <<ub, call, ncall, at, tk, aax, graph, ran, gouts>>

\* Lines 44-52: what the view form of AddAt registers for its output.
AddAtClosures(f) ==
    LET out == [f.out EXCEPT !.grad = TRUE] IN
    (IF f.a.grad
     THEN <<Closure("add_at", 47, "a", f.id, <<>>, NoArray, 0, <<>>, "none", out)>>
     ELSE <<>>)
    \o
    (IF f.b.grad
     THEN <<Closure("add_at", 50, "b", f.id, f.indices, NoArray, 0, <<>>, "none", out)>>
     ELSE <<>>)

\* Lines 44-54.
AddAt_Backward ==
    /\ pc = "addat_backward"
    /\ graph' = graph \o AddAtClosures(aav)
    /\ aav' = [aav EXCEPT !.out.grad = aav.a.grad \/ aav.b.grad]
    /\ Return(aav'.out)
    /\ UNCHANGED <<heap, err, ub, call, ncall, at, tk, aax, ran, gouts>>

\* ------------------------------------------------------- device kernels

RECURSIVE SumOver(_, _)
SumOver(S, f) ==
    IF S = {} THEN 0
    ELSE LET x == CHOOSE y \in S : TRUE IN f[x] + SumOver(S \ {x}, f)

\* The index stored at position ipos of the index array, wrapped into an
\* axis of size dim.
IndexAt(h, indices, ipos, dim) == Elem(h, indices, ipos) % dim

\* A position of the gathered array splits into the axes left of the
\* gathered axis, a position of the index array, and the axes right of it.
LeftOf(pos, axis) == Take1(pos, axis)
IndexPart(pos, axis, indices) == SubSeq(pos, axis + 1, axis + Ndim(indices))
RightOf(pos, axis, indices) == Drop(pos, axis + Ndim(indices))

\* Device::Take(a, indices, axis, out): out[l, i, r] = a[l, indices[i], r].
DeviceTake(h, a, indices, axis, out) ==
    [h EXCEPT ![out.data] =
        [c \in DOMAIN @ |->
            LET pos == Unravel(out.shape, c) IN
            Elem(h, a, LeftOf(pos, axis)
                       \o <<IndexAt(h, indices, IndexPart(pos, axis, indices), a.shape[axis + 1])>>
                       \o RightOf(pos, axis, indices))]]

\* Device::AddAt(a, indices, axis, b, out): out = a, then for every position
\* [l, i, r] of b, out[l, indices[i], r] += b[l, i, r].
DeviceAddAt(h, a, indices, axis, b, out) ==
    [h EXCEPT ![out.data] =
        [c \in DOMAIN @ |->
            LET pos == Unravel(a.shape, c)
                hits == {i \in Positions(indices.shape) :
                            IndexAt(h, indices, i, a.shape[axis + 1]) = pos[axis + 1]}
            IN Elem(h, a, pos)
               + SumOver(hits, [i \in hits |->
                                   Elem(h, b, Take1(pos, axis) \o i \o Drop(pos, axis + 1))])]]

\* internal::NormalizeAxis(axis, ndim): axis counted from the end if negative.
AxisInRange(axis, ndim) == -ndim <= axis /\ axis < ndim
NormalizeAxis(axis, ndim) == IF axis < 0 THEN axis + ndim ELSE axis

\* ------------------------------------------------------ AddAt, axis form

AxisAddAtFrame(a, indices, axis, b, id) ==
    [a |-> a, indices |-> indices, axis |-> axis, b |-> b, id |-> id, out |-> NoArray]

NoAxisAddAt == AxisAddAtFrame(NoArray, NoArray, 0, NoArray, 0)

\* Lines 121-123: the two assertions and the dtype check.
AxisAddAt_Check ==
    /\ pc = "axis_addat_check"
    /\ IF ~(0 <= aax.axis /\ aax.axis < Ndim(aax.a))
          \/ ~(Ndim(aax.b) = Ndim(aax.indices) + Ndim(aax.a) - 1)
       THEN /\ pc' = "assert"
            /\ UNCHANGED <<cont, err, retval, result, grads, bw>>
       ELSE IF aax.a.dtype # aax.b.dtype
       THEN Throw(DtypeMismatch)
       ELSE /\ pc' = "axis_addat_scatter"
            /\ UNCHANGED <<cont, err, retval, result, grads, bw>>
    /\ UNCHANGED <<heap, ub, call, ncall, at, aav, tk, aax, graph, ran, gouts>>

\* Lines 125-127: out = EmptyLike(a), filled by the device.
AxisAddAt_Scatter ==
    /\ pc = "axis_addat_scatter"
    /\ LET out == FreshArray(heap, aax.a.shape, aax.a.dtype, FALSE)
           h1 == Append(heap, EmptyBuffer(aax.a.shape))
       IN /\ heap' = DeviceAddAt(h1, aax.a, aax.indices, aax.axis, aax.b, out)
          /\ aax' = [aax EXCEPT !.out = out]
    /\ pc' = "axis_addat_backward"
    /\ UNCHANGED <<cont, retval, result, err, ub, call, ncall, at, aav, tk,
                   graph, ran, bw, gouts, grads>>

\* Lines 129-140: what the axis form of AddAt registers for its output.
AxisAddAtClosures(f) ==
    LET out == [f.out EXCEPT !.grad = TRUE] IN
    (IF f.a.grad
     THEN <<Closure("add_at", 132, "a", f.id, <<>>, NoArray, 0, <<>>, "none", out)>>
     ELSE <<>>)
    \o
    (IF f.b.grad
     THEN <<Closure("add_at", 135, "b", f.id, <<>>, f.indices, f.axis, <<>>, "none", out)>>
     ELSE <<>>)

\* Lines 129-142.
AxisAddAt_Backward ==
    /\ pc = "axis_addat_backward"
    /\ graph' = graph \o AxisAddAtClosures(aax)
    /\ aax' = [aax EXCEPT !.out.grad = aax.a.grad \/ aax.b.grad]
    /\ Return(aax'.out)
    /\ UNCHANGED <<heap, err, ub, call, ncall, at, aav, tk, ran, gouts>>

\* ------------------------------------------------------------------- Take

\* normalized tells whether line 155 has given axis_norm its value.
TakeFrame(a, indices, axis, id) ==
    [a |-> a, indices |-> indices, axis |-> axis, id |-> id,
     normalized |-> FALSE, axis_norm |-> 0, out |-> NoArray]

NoTake == TakeFrame(NoArray, NoArray, 0, 0)

\* Lines 147-153 placed after line 155: the axis is normalised first.
Take_CheckDtype_AfterNormalize ==
    /\ pc = "take_dtype"
    /\ IF ~AxisInRange(tk.axis, Ndim(tk.a))
       THEN Throw(AxisOutOfRange(tk.axis, Ndim(tk.a)))
       ELSE IF tk.indices.dtype # kInt64
       THEN Throw(IndicesDtypeError(tk.indices.dtype))
       ELSE /\ pc' = "take_normalize"
            /\ UNCHANGED <<cont, err, retval, result, grads, bw>>
    /\ UNCHANGED <<heap, ub, call, ncall, at, aav, tk, aax, graph, ran, gouts>>

\* Lines 147-153.
Take_CheckDtype ==
    /\ pc = "take_dtype"
    /\ IF tk.indices.dtype # kInt64
       THEN Throw(IndicesDtypeError(tk.indices.dtype))
       ELSE /\ pc' = "take_normalize"
            /\ UNCHANGED <<cont, err, retval, result, grads, bw>>
    /\ UNCHANGED <<heap, ub, call, ncall, at, aav, tk, aax, graph, ran, gouts>>

\* Line 155.
Take_NormalizeAxis ==
    /\ pc = "take_normalize"
    /\ IF ~AxisInRange(tk.axis, Ndim(tk.a))
       THEN /\ Throw(AxisOutOfRange(tk.axis, Ndim(tk.a)))
            /\ UNCHANGED tk
       ELSE /\ tk' = [tk EXCEPT !.axis_norm = NormalizeAxis(tk.axis, Ndim(tk.a)),
                                  !.normalized = TRUE]
            /\ pc' = "take_empty"
            /\ UNCHANGED <<cont, err, retval, result, grads, bw>>
    /\ UNCHANGED <<heap, ub, call, ncall, at, aav, aax, graph, ran, gouts>>

\* Lines 157-160 with the third copy starting at axis_norm, not axis_norm + 1.
TakeOutShape_KeepsAxis(a_shape, indices_shape, axis_norm) ==
    Take1(a_shape, axis_norm) \o indices_shape \o Drop(a_shape, axis_norm)

\* Lines 157-160.
TakeOutShape(a_shape, indices_shape, axis_norm) ==
    Take1(a_shape, axis_norm) \o indices_shape \o Drop(a_shape, axis_norm + 1)

\* Lines 157-161: out = Empty(out_shape, a.dtype(), a.device()).
Take_Empty ==
    /\ pc = "take_empty"
    /\ LET out_shape == TakeOutShape(tk.a.shape, tk.indices.shape, tk.axis_norm)
       IN /\ tk' = [tk EXCEPT !.out = FreshArray(heap, out_shape, tk.a.dtype, FALSE)]
          /\ heap' = Append(heap, EmptyBuffer(out_shape))
    /\ pc' = "take_gather"
    /\ UNCHANGED <<cont, retval, result, err, ub, call, ncall, at, aav, aax,
                   graph, ran, bw, gouts, grads>>

\* Line 163: a.device().Take(a, indices, axis_norm, out).
Take_Gather ==
    /\ pc = "take_gather"
    /\ heap' = DeviceTake(heap, tk.a, tk.indices, tk.axis_norm, tk.out)
    /\ pc' = "take_backward"
    /\ UNCHANGED <<cont, retval, result, err, ub, call, ncall, at, aav, tk, aax,
                   graph, ran, bw, gouts, grads>>

\* Lines 165-171 with the closure capturing axis where it should capture axis_norm.
TakeClosures_RawAxis(f) ==
    IF f.a.grad
    THEN <<Closure("take", 167, "a", f.id, <<>>, f.indices, f.axis, f.a.shape, "none",
                   [f.out EXCEPT !.grad = TRUE])>>
    ELSE <<>>

\* Lines 165-171 with the closure defined whether or not a requires gradients.
TakeClosures_Always(f) ==
    <<Closure("take", 167, "a", f.id, <<>>, f.indices, f.axis_norm, f.a.shape, "none",
              [f.out EXCEPT !.grad = TRUE])>>

\* Lines 165-171: what Take registers for its output.
TakeClosures(f) ==
    IF f.a.grad
    THEN <<Closure("take", 167, "a", f.id, <<>>, f.indices, f.axis_norm, f.a.shape, "none",
                   [f.out EXCEPT !.grad = TRUE])>>
    ELSE <<>>

\* Lines 165-173.
Take_Backward ==
    /\ pc = "take_backward"
    /\ graph' = graph \o TakeClosures(tk)
    /\ tk' = [tk EXCEPT !.out.grad = tk.a.grad]
    /\ Return(tk'.out)
    /\ UNCHANGED <<heap, err, ub, call, ncall, at, aav, aax, ran, gouts>>

\* --------------------------------------------------- the backward engine

\* The output gradient the engine hands a closure: a constant array shaped
\* and typed like the output the closure is attached to.
GradValue(c) == c + 1

GradBuffer(shape) == NewBuffer(shape, [c \in 0 .. (Product(shape) - 1) |-> GradValue(c)])

\* The engine may run closure i, the lambda written at the given line.
Invocable(i, line) ==
    /\ pc = "idle"
    /\ i \in 1 .. Len(graph)
    /\ i \notin ran
    /\ graph[i].line = line

\* Lines 101-105: the closure At registered.
Backward_get_item(i) ==
    /\ Invocable(i, 101)
    /\ LET c == graph[i]
             gout == FreshArray(heap, c.out.shape, c.out.dtype, FALSE)
             h1 == Append(heap, GradBuffer(c.out.shape))
             gin == FreshArray(h1, c.a_shape, c.a_dtype, FALSE)
         IN /\ heap' = Append(h1, ZerosBuffer(c.a_shape))
            /\ gouts' = Append(gouts, [closure |-> i, gout |-> gout])
            /\ aav' = AddAtFrame(gin, c.indices, gout, ncall + 1)
    /\ ncall' = ncall + 1
    /\ ran' = ran \cup {i}
    /\ bw' = i
    /\ pc' = "addat_copy"
    /\ cont' = <<"closure">>
    /\ UNCHANGED <<retval, result, err, ub, call, at, tk, aax, graph, grads>>

\* Lines 47 and 132: bctx.input_grad() = bctx.output_grad().
Backward_add_at_a(i) ==
    /\ (Invocable(i, 47) \/ Invocable(i, 132))
    /\ LET c == graph[i]
             gout == FreshArray(heap, c.out.shape, c.out.dtype, FALSE)
         IN /\ heap' = Append(heap, GradBuffer(c.out.shape))
            /\ gouts' = Append(gouts, [closure |-> i, gout |-> gout])
            /\ grads' = Append(grads, [closure |-> i, gin |-> gout])
    /\ ran' = ran \cup {i}
    /\ UNCHANGED <<pc, cont, retval, result, err, ub, call, ncall, at, aav, tk, aax,
                   graph, bw>>

\* Line 50: bctx.input_grad() = bctx.output_grad().At(indices).
Backward_add_at_b(i) ==
    /\ Invocable(i, 50)
    /\ LET c == graph[i]
             gout == FreshArray(heap, c.out.shape, c.out.dtype, FALSE)
         IN /\ heap' = Append(heap, GradBuffer(c.out.shape))
            /\ gouts' = Append(gouts, [closure |-> i, gout |-> gout])
            /\ at' = AtFrame(gout, c.indices, ncall + 1)
    /\ ncall' = ncall + 1
    /\ ran' = ran \cup {i}
    /\ bw' = i
    /\ pc' = "at_loop"
    /\ cont' = <<"closure">>
    /\ UNCHANGED <<retval, result, err, ub, call, aav, tk, aax, graph, grads>>

\* Line 169 with the base array left uninitialised (Empty where Zeros is meant).
TakeGradBase_Empty(shape) == EmptyBuffer(shape)

\* Line 169: Zeros(a_shape, gout.dtype(), gout.device()).
TakeGradBase(shape) == ZerosBuffer(shape)

\* Lines 167-170: the closure Take registered.
Backward_take(i) ==
    /\ Invocable(i, 167)
    /\ LET c == graph[i]
           gout == FreshArray(heap, c.out.shape, c.out.dtype, FALSE)
           h1 == Append(heap, GradBuffer(c.out.shape))
           zeros == FreshArray(h1, c.a_shape, gout.dtype, FALSE)
       IN /\ heap' = Append(h1, TakeGradBase(c.a_shape))
          /\ gouts' = Append(gouts, [closure |-> i, gout |-> gout])
          /\ aax' = AxisAddAtFrame(zeros, c.index_array, c.axis, gout, ncall + 1)
    /\ ncall' = ncall + 1
    /\ ran' = ran \cup {i}
    /\ bw' = i
    /\ pc' = "axis_addat_check"
    /\ cont' = <<"closure">>
    /\ UNCHANGED <<retval, result, err, ub, call, at, aav, tk, graph, grads>>

\* Lines 135-138: the closure the axis form of AddAt registered for b.
Backward_axis_add_at_b(i) ==
    /\ Invocable(i, 135)
    /\ LET c == graph[i]
           gout == FreshArray(heap, c.out.shape, c.out.dtype, FALSE)
       IN /\ heap' = Append(heap, GradBuffer(c.out.shape))
          /\ gouts' = Append(gouts, [closure |-> i, gout |-> gout])
          /\ IF c.index_array.grad
             THEN /\ pc' = "assert"
                  /\ UNCHANGED <<tk, ncall, bw, cont>>
             ELSE /\ tk' = TakeFrame(gout, c.index_array, c.axis, ncall + 1)
                  /\ ncall' = ncall + 1
                  /\ bw' = i
                  /\ pc' = "take_dtype"
                  /\ cont' = <<"closure">>
    /\ ran' = ran \cup {i}
    /\ UNCHANGED <<retval, result, err, ub, call, at, aav, aax, graph, grads>>

\* ------------------------------------------------------------- the inputs

Shapes == UNION {SeqsUpTo(Dims, r) : r \in Ranks}

\* A caller's array: C-contiguous, or a view with every second cell skipped
\* that starts one cell into its buffer.
Layouts == {"contiguous", "strided"}

InputValue(c) == 10 * (c + 1)

InputArray(shape, layout, dtype, data, grad) ==
    IF layout = "contiguous"
    THEN Arr(shape, ContiguousStrides(shape), 0, dtype, data, grad)
    ELSE Arr(shape, [k \in DOMAIN shape |-> 2 * ContiguousStrides(shape)[k]], 1,
             dtype, data, grad)

InputBuffer(shape, layout) ==
    LET n == IF layout = "contiguous" THEN Product(shape) ELSE 2 * Product(shape) + 1
    IN [c \in 0 .. (n - 1) |-> InputValue(c)]

Slices == {SliceAll(-1), SliceFrom(1, 2), SliceTo(-1, 1)}

\* In range for some dimension size, and just past either end of the largest.
SingleIndices == {-(MaxDim + 1), -1, 0, MaxDim}

IndexEntries ==
    {SingleElement(i) : i \in SingleIndices} \cup Slices \cup {NewAxis}

IndexSeqs == SeqsUpTo(IndexEntries, MaxLen)

\* The library call under analysis, with the buffers as they were on entry.
Call(op, a, indices, index_array, axis, b, h) ==
    [op |-> op, a |-> a, indices |-> indices, index_array |-> index_array,
     axis |-> axis, b |-> b, heap |-> h]

\* The state in which a caller enters one of the operations.
Enter(c, start, atf, aavf, tkf, aaxf) ==
    /\ heap = c.heap
    /\ call = c
    /\ pc = start
    /\ cont = <<"main">>
    /\ at = atf
    /\ aav = aavf
    /\ tk = tkf
    /\ aax = aaxf
    /\ retval = NoArray
    /\ result = NoArray
    /\ err = NoError
    /\ ub = {}
    /\ ncall = 1
    /\ graph = <<>>
    /\ ran = {}
    /\ bw = 0
    /\ gouts = <<>>
    /\ grads = <<>>

\* A caller calls At(a, indices).
InitAt ==
    \E shape \in Shapes, layout \in Layouts, grad \in BOOLEAN, indices \in IndexSeqs :
        LET a == InputArray(shape, layout, "float32", 1, grad) IN
        Enter(Call("At", a, indices, NoArray, 0, NoArray, <<InputBuffer(shape, layout)>>),
              "at_loop", AtFrame(a, indices, 1), NoAddAt, NoTake, NoAxisAddAt)

\* The addend shapes tried against a base of the given shape: the shape
\* itself, without its first axis, and with a leading axis of length 1.
AddendShapes(shape) ==
    {shape, <<1>> \o shape} \cup (IF shape = <<>> THEN {} ELSE {Tail(shape)})

AddendValue(c) == c + 1

AddendBuffer(shape) ==
    NewBuffer(shape, [c \in 0 .. (Product(shape) - 1) |-> AddendValue(c)])

\* Which of a and b require gradients, and the dtype of b (a is float32).
AddAtTracking ==
    {<<ga, gb, "float32">> : ga \in BOOLEAN, gb \in BOOLEAN} \cup {<<TRUE, TRUE, "int64">>}

NonEmptyShapes == SeqsUpTo(1 .. MaxDim, 2)

\* A call of the view form of AddAt(a, indices, b).
InitAddAt ==
    \E shape \in NonEmptyShapes, indices \in IndexSeqs, t \in AddAtTracking :
      \E bshape \in AddendShapes(shape) :
        LET a == InputArray(shape, "contiguous", "float32", 1, t[1])
            b == InputArray(bshape, "contiguous", t[3], 2, t[2])
        IN Enter(Call("AddAt", a, indices, NoArray, 0, b,
                      <<InputBuffer(shape, "contiguous"), AddendBuffer(bshape)>>),
                 "addat_copy", NoAt, AddAtFrame(a, indices, b, 1), NoTake, NoAxisAddAt)

\* Index arrays: a scalar, vectors of one and two indices, a 1 x 2 matrix.
IndexShapes == {<<>>, <<1>>, <<2>>, <<1, 2>>}
IndexValues == 0 .. (MaxDim - 1)
IndexBuffers(shape) == [0 .. (Product(shape) - 1) -> IndexValues]

Axes == -3 .. 2

\* A caller calls Take(a, indices, axis).
InitTake ==
    \E shape \in NonEmptyShapes, ishape \in IndexShapes, axis \in Axes,
       grad \in BOOLEAN, dtype \in Dtypes, idtype \in Dtypes :
      \E ibuf \in IndexBuffers(ishape) :
        LET a == InputArray(shape, "contiguous", dtype, 1, grad)
            indices == InputArray(ishape, "contiguous", idtype, 2, FALSE)
        IN Enter(Call("Take", a, <<>>, indices, axis, NoArray,
                      <<InputBuffer(shape, "contiguous"), ibuf>>),
                 "take_dtype", NoAt, NoAddAt, TakeFrame(a, indices, axis, 1), NoAxisAddAt)

\* A call of the axis form of AddAt(a, indices, axis, b), as its callers
\* make it: the axis within a's rank and b shaped like Take's output.
InitAxisAddAt ==
    \E shape \in NonEmptyShapes \ {<<>>}, ishape \in IndexShapes, t \in AddAtTracking :
      \E axis \in 0 .. (Len(shape) - 1), ibuf \in IndexBuffers(ishape) :
        LET bshape == Take1(shape, axis) \o ishape \o Drop(shape, axis + 1)
            a == InputArray(shape, "contiguous", "float32", 1, t[1])
            indices == InputArray(ishape, "contiguous", kInt64, 2, FALSE)
            b == InputArray(bshape, "contiguous", t[3], 3, t[2])
        IN Enter(Call("AxisAddAt", a, <<>>, indices, axis, b,
                      <<InputBuffer(shape, "contiguous"), ibuf, AddendBuffer(bshape)>>),
                 "axis_addat_check", NoAt, NoAddAt, NoTake,
                 AxisAddAtFrame(a, indices, axis, b, 1))

Init == InitAt \/ InitAddAt \/ InitTake \/ InitAxisAddAt

Next ==
    \/ At_kSingleElement
    \/ At_kSlice
    \/ At_kNewAxis
    \/ At_ReadFault
    \/ At_MakeArray
    \/ At_Backward
    \/ AddAt_Copy
    \/ AddAt_Add
    \/ AddAt_Backward
    \/ AxisAddAt_Check
    \/ AxisAddAt_Scatter
    \/ AxisAddAt_Backward
    \/ Take_CheckDtype
    \/ Take_NormalizeAxis
    \/ Take_Empty
    \/ Take_Gather
    \/ Take_Backward
    \/ \E i \in 1 .. Len(graph) : Backward_get_item(i)
    \/ \E i \in 1 .. Len(graph) : Backward_add_at_a(i)
    \/ \E i \in 1 .. Len(graph) : Backward_add_at_b(i)
    \/ \E i \in 1 .. Len(graph) : Backward_take(i)
    \/ \E i \in 1 .. Len(graph) : Backward_axis_add_at_b(i)

Spec == Init /\ [][Next]_vars

\* ------------------------------------------------- view geometry, as specified

IsConsuming(e) == e.tag \in {kSingleElement, kSlice}

\* Every SingleElement entry of S meets an axis of a and lies in [-dim, dim).
RECURSIVE InRangeSingles(_, _, _)
InRangeSingles(a, S, i) ==
    IF S = <<>> THEN TRUE
    ELSE LET e == Head(S) IN
         /\ e.tag = kSingleElement =>
                /\ i < Ndim(a)
                /\ -a.shape[i + 1] <= e.index
                /\ e.index < a.shape[i + 1]
         /\ InRangeSingles(a, Tail(S), IF IsConsuming(e) THEN i + 1 ELSE i)

\* S has no more SingleElement/Slice entries than a has axes.
WithinRank(a, S) == Cardinality({k \in DOMAIN S : IsConsuming(S[k])}) <= Ndim(a)

Wrapped(index, dim) == IF index < 0 THEN index + dim ELSE index

\* The view S selects from a, entries from axis i on: offset relative to
\* a.offset, shape and strides.  Meaningful when WithinRank and InRangeSingles.
RECURSIVE SelectedView(_, _, _)
SelectedView(a, S, i) ==
    IF S = <<>>
    THEN [offset |-> 0, shape |-> Drop(a.shape, i), strides |-> Drop(a.strides, i)]
    ELSE LET e == Head(S)
             rest == SelectedView(a, Tail(S), IF IsConsuming(e) THEN i + 1 ELSE i)
         IN CASE e.tag = kSingleElement ->
                   [rest EXCEPT !.offset = @ + a.strides[i + 1] * Wrapped(e.index, a.shape[i + 1])]
              [] e.tag = kSlice ->
                   [offset |-> rest.offset + a.strides[i + 1] * GetStart(e, a.shape[i + 1]),
                    shape |-> <<GetLength(e, a.shape[i + 1])>> \o rest.shape,
                    strides |-> <<a.strides[i + 1] * e.step>> \o rest.strides]
              [] OTHER ->
                   [offset |-> rest.offset,
                    shape |-> <<1>> \o rest.shape,
                    strides |-> <<0>> \o rest.strides]

\* The position of a that position pos of the view reads.
RECURSIVE MapPosition(_, _, _, _)
MapPosition(a, S, i, pos) ==
    IF S = <<>> THEN pos
    ELSE LET e == Head(S) IN
         CASE e.tag = kSingleElement ->
                <<Wrapped(e.index, a.shape[i + 1])>> \o MapPosition(a, Tail(S), i + 1, pos)
           [] e.tag = kSlice ->
                <<GetStart(e, a.shape[i + 1]) + Head(pos) * e.step>>
                    \o MapPosition(a, Tail(S), i + 1, Tail(pos))
           [] OTHER -> MapPosition(a, Tail(S), i, Tail(pos))

\* out is the view of a that S selects, and reads a's elements through it.
IsSelectedView(h, a, S, out) ==
    LET v == SelectedView(a, S, 0) IN
    /\ out.data = a.data
    /\ out.dtype = a.dtype
    /\ out.offset = a.offset + v.offset
    /\ out.shape = v.shape
    /\ out.strides = v.strides
    /\ \A pos \in Positions(out.shape) :
          /\ MapPosition(a, S, 0, pos) \in Positions(a.shape)
          /\ Elem(h, out, pos) = Elem(h, a, MapPosition(a, S, 0, pos))

\* The buffers the caller passed in hold what they held on entry.
CallerBuffersUnchanged == \A d \in DOMAIN call.heap : heap[d] = call.heap[d]

AtReturned == at.out # NoArray
AtFailed == pc = "fault" \/ (pc = "error" /\ err.text = IndexOutOfBounds(0, 0, 0).text)

\* C1: for every array a and every index sequence S whose single indices are
\* in range, At(a, S) returns (it neither throws nor faults) the view of a's
\* buffer that S selects: offset, shape and strides as specified, every
\* element read through to a, negative single indices wrapped, and a's buffer
\* as it was.
C1_ViewGeometry ==
    (at.id = 1 /\ InRangeSingles(at.a, at.indices, 0)) =>
        /\ ~AtFailed
        /\ AtReturned =>
              /\ WithinRank(at.a, at.indices)
              /\ IsSelectedView(heap, at.a, at.indices, at.out)
              /\ CallerBuffersUnchanged

\* The same for the sequences that stay within a's rank: here At does return
\* the selected view.
At_ViewGeometryWithinRank ==
    (at.id # 0 /\ InRangeSingles(at.a, at.indices, 0) /\ WithinRank(at.a, at.indices)) =>
        /\ ~AtFailed
        /\ AtReturned => IsSelectedView(heap, at.a, at.indices, at.out)
        /\ at.id = 1 => CallerBuffersUnchanged

At_ViewGeometryWitness ==
    /\ at.id = 1
    /\ AtReturned
    /\ WithinRank(at.a, at.indices)
    /\ Ndim(at.a) = 2
    /\ at.a.offset = 1
    /\ \E k \in DOMAIN at.indices : at.indices[k] = SingleElement(-1)
    /\ \E k \in DOMAIN at.indices : at.indices[k].tag = kSlice /\ at.indices[k].step = -1
    /\ Product(at.out.shape) = 2

At_SingleElementStep ==
    /\ AtEntry
    /\ at.indices[at.k].tag = kSingleElement
    /\ at.i_in < Ndim(at.a)

IndexErrorText == IndexOutOfBounds(0, 0, 0).text

\* C2: processing SingleElement(idx) on an axis of size dim throws the
\* out-of-bounds error exactly when idx < -dim or idx >= dim; the error
\* carries idx, the axis cursor and dim; the throwing step produces no
\* output and registers no closure; no other step throws this error; and
\* the remainder is never taken with dim = 0.
C2_BoundsCheck ==
    [][ /\ At_SingleElementStep =>
            LET index == at.indices[at.k].index
                dim == at.a.shape[at.i_in + 1]
            IN IF index < -dim \/ index >= dim
               THEN /\ pc' = "error"
                    /\ err' = IndexOutOfBounds(index, at.i_in, dim)
                    /\ at'.out = NoArray
                    /\ result' = result
                    /\ retval' = retval
                    /\ graph' = graph
                    /\ heap' = heap
               ELSE /\ pc' = "at_loop"
                    /\ err' = NoError
                    /\ at'.i_in = at.i_in + 1
        /\ (err' # err /\ err'.text = IndexErrorText) =>
               /\ AtEntry
               /\ at.indices[at.k].tag = kSingleElement
               /\ err'.x = at.indices[at.k].index
               /\ err'.y = at.i_in
               /\ err'.x < -err'.z \/ err'.x >= err'.z
        /\ "modulo_by_zero" \notin ub'
      ]_vars

\* An index was rejected on a second axis of size 0.
C2_Witness ==
    /\ pc = "error"
    /\ err = IndexOutOfBounds(0, 1, 0)
    /\ Ndim(at.a) = 2
    /\ result = NoArray
    /\ graph = <<>>

\* C3: whenever At is about to process a SingleElement or Slice entry, the
\* axis cursor i_in is below a's rank, so no read of a.shape or a.strides
\* lies at or past the rank.
C3_CursorWithinRank ==
    /\ "read_past_rank" \notin ub
    /\ \A k \in 1 .. (at.k - 1) :
          IsConsuming(at.indices[k]) =>
              Cardinality({j \in 1 .. k : IsConsuming(at.indices[j])}) <= Ndim(at.a)

\* ----------------------------------------------------- AddAt, view form

\* At(a, S) is defined and has the shape of b.
ViewMatches(a, S, b) ==
    /\ WithinRank(a, S)
    /\ InRangeSingles(a, S, 0)
    /\ SelectedView(a, S, 0).shape = b.shape

\* The positions of b that land on position pos of a.
Sources(a, S, b, pos) == {q \in Positions(b.shape) : MapPosition(a, S, 0, q) = pos}

Failed == pc \in {"error", "fault", "assert"}

\* The library call itself failed (not a closure run by the engine later).
ForwardFailed == Failed /\ ran = {}

\* C4: when a.dtype = b.dtype and At(a, S).shape = b.shape, the view form of
\* AddAt does not fail, and what it returns is a new array shaped like a
\* whose element is a's plus b's at each position the view of S selects and
\* a's elsewhere; the buffers of a and b hold what they held on entry.
C4_AddAtValues ==
    LET a == call.a
        b == call.b
        S == call.indices
    IN (call.op = "AddAt" /\ a.dtype = b.dtype /\ ViewMatches(a, S, b)) =>
        /\ ~ForwardFailed
        /\ CallerBuffersUnchanged
        /\ result # NoArray =>
              /\ result.data \notin DOMAIN call.heap
              /\ result.shape = a.shape
              /\ result.dtype = a.dtype
              /\ \A pos \in Positions(a.shape) :
                    LET Q == Sources(a, S, b, pos) IN
                    /\ Cardinality(Q) <= 1
                    /\ Q = {} => Elem(heap, result, pos) = Elem(call.heap, a, pos)
                    /\ \A q \in Q : Elem(heap, result, pos)
                                      = Elem(call.heap, a, pos) + Elem(call.heap, b, q)

\* AddAt returned after adding a row of length 2 into the last row of a 2 x 2 array.
C4_Witness ==
    /\ call.op = "AddAt"
    /\ result # NoArray
    /\ call.a.shape = <<2, 2>>
    /\ call.indices = <<SingleElement(-1)>>
    /\ call.b.shape = <<2>>
    /\ heap[result.data] = (0 :> 10 @@ 1 :> 20 @@ 2 :> 31 @@ 3 :> 42)
    /\ CallerBuffersUnchanged

\* C5: the view form of AddAt throws the dtype error when the dtypes of a
\* and b differ, and the shape error when they agree and b's shape differs
\* from that of At(copy of a, S); whenever it fails, the device add has not
\* run (the private copy still equals a), nothing is returned, no closure
\* is registered, and the buffers of a and b hold what they held on entry.
C5_AddAtRejects ==
    LET a == call.a
        b == call.b
        S == call.indices
    IN call.op = "AddAt" =>
        /\ (a.dtype # b.dtype /\ pc # "addat_copy") =>
              /\ pc = "error"
              /\ err = DtypeMismatch
              /\ heap = call.heap
        /\ (/\ a.dtype = b.dtype
            /\ WithinRank(a, S)
            /\ InRangeSingles(a, S, 0)
            /\ SelectedView(a, S, 0).shape # b.shape) =>
              /\ result = NoArray
              /\ pc \in {"addat_copy", "at_loop", "at_backward", "addat_add", "error"}
              /\ pc = "error" => err = ShapeMismatch
        /\ ForwardFailed =>
              /\ result = NoArray
              /\ graph = <<>>
              /\ CallerBuffersUnchanged
              /\ aav.out_view = NoArray
              /\ aav.out # NoArray => Contents(heap, aav.out) = Contents(call.heap, a)

\* The shape error was thrown for an addend of shape (2, 2) against the
\* view of shape (2,) that a single index selects.
C5_Witness ==
    /\ call.op = "AddAt"
    /\ pc = "error"
    /\ err = ShapeMismatch
    /\ call.a.shape = <<2, 2>>
    /\ call.b.shape = <<2, 2>>
    /\ call.indices = <<SingleElement(0)>>
    /\ retval.shape = <<2>>

\* ------------------------------------------------------------------- Take

IsTakeCall == call.op = "Take" /\ call.index_array.dtype = kInt64

CallAxisInRange == -Ndim(call.a) <= call.axis /\ call.axis < Ndim(call.a)

\* The axis of the call counted from the front.
CallAx == IF call.axis < 0 THEN call.axis + Ndim(call.a) ELSE call.axis

\* a.shape[0:ax] ++ indices.shape ++ a.shape[ax+1:]
GatheredShape ==
    SubSeq(call.a.shape, 1, CallAx)
        \o call.index_array.shape
        \o SubSeq(call.a.shape, CallAx + 2, Ndim(call.a))

\* C6: with int64 indices and an axis in [-a.rank, a.rank), Take does not
\* fail, and what it returns is a new contiguous array of a's dtype, in a
\* buffer that did not exist on entry, of shape a.shape[0:ax] ++
\* indices.shape ++ a.shape[ax+1:] with ax the axis counted from the front;
\* with an axis outside that range Take throws the axis error with no
\* buffer allocated, nothing returned and no closure registered.
C6_TakeShape ==
    IsTakeCall =>
        IF CallAxisInRange
        THEN /\ ~ForwardFailed
             /\ CallerBuffersUnchanged
             /\ tk.id = 1 /\ tk.normalized => tk.axis_norm = CallAx
             /\ (tk.id = 1 /\ tk.out # NoArray) => tk.out.shape = GatheredShape
             /\ result # NoArray =>
                   /\ result.shape = GatheredShape
                   /\ result.dtype = call.a.dtype
                   /\ result.data \notin DOMAIN call.heap
                   /\ result.offset = 0
                   /\ result.strides = ContiguousStrides(result.shape)
                   /\ DOMAIN heap[result.data] = 0 .. (Product(result.shape) - 1)
        ELSE /\ result = NoArray
             /\ graph = <<>>
             /\ heap = call.heap
             /\ tk.out = NoArray
             /\ pc \in {"take_dtype", "take_normalize", "error"}
             /\ pc = "error" => err = AxisOutOfRange(call.axis, Ndim(call.a))

\* Take returned for a 2 x 2 array, a 1 x 2 index array and axis -1.
C6_Witness ==
    /\ IsTakeCall
    /\ call.axis = -1
    /\ call.a.shape = <<2, 2>>
    /\ call.index_array.shape = <<1, 2>>
    /\ result # NoArray
    /\ result.shape = <<2, 1, 2>>
    /\ Len(heap) = 3

\* C7: Take with indices of a dtype other than int64 throws the dtype
\* error, which names int64 as required and the dtype given; when it is
\* thrown the axis has not been normalised, no buffer has been allocated,
\* the device has gathered nothing, no closure is registered and nothing is
\* returned.
C7_TakeDtypeFirst ==
    (call.op = "Take" /\ call.index_array.dtype # kInt64 /\ pc # "take_dtype") =>
        /\ pc = "error"
        /\ err = IndicesDtypeError(call.index_array.dtype)
        /\ err.type = "DtypeError"
        /\ err.required = "int64"
        /\ err.given = call.index_array.dtype
        /\ ~tk.normalized
        /\ tk.out = NoArray
        /\ heap = call.heap
        /\ graph = <<>>
        /\ result = NoArray

\* The dtype error was thrown for float32 indices although the axis is out
\* of range too and a requires gradients.
C7_Witness ==
    /\ call.op = "Take"
    /\ call.index_array.dtype = "float32"
    /\ ~CallAxisInRange
    /\ call.a.grad
    /\ pc = "error"
    /\ err.type = "DtypeError"
    /\ err.given = "float32"

\* --------------------------------------------------- Take and AddAt, adjoint

\* Every index stored in the index array names an element of the axis.
IndicesInRange(h, indices, dim) ==
    \A i \in Positions(indices.shape) : 0 <= Elem(h, indices, i) /\ Elem(h, indices, i) < dim

\* The position of a that position q of Take(a, indices, ax) reads.
GatherSource(h, indices, ax, q) ==
    SubSeq(q, 1, ax)
        \o <<Elem(h, indices, SubSeq(q, ax + 1, ax + Ndim(indices)))>>
        \o SubSeq(q, ax + Ndim(indices) + 1, Len(q))

\* sum(x * y) over the positions of two arrays of one shape.
Inner(h, x, y) ==
    LET P == Positions(x.shape) IN
    SumOver(P, [p \in P |-> Elem(h, x, p) * Elem(h, y, p)])

\* The gradient the engine handed closure i.
GoutOf(i) == (CHOOSE n \in DOMAIN gouts : gouts[n].closure = i)

\* C8: for int64 indices with in-range values and an axis in range, the
\* closure Take registered, applied to a gradient g shaped like Take's
\* output, does not fail and yields an array shaped like a whose element at
\* each position is the sum of g over all the output positions that read
\* that position (a repeated index accumulates), so that
\* sum(Take(a, indices, axis) * g) = sum(a * gin); and the closure the axis
\* form of AddAt registered for b yields Take(gout, indices, axis).
C8_TakeAddAtAdjoint ==
    /\ (/\ IsTakeCall
        /\ CallAxisInRange
        /\ IndicesInRange(call.heap, call.index_array, call.a.shape[CallAx + 1])) =>
          /\ ~Failed
          /\ \A n \in DOMAIN grads :
                LET gin == grads[n].gin
                    g == gouts[GoutOf(grads[n].closure)].gout
                IN /\ g.shape = result.shape
                   /\ gin.shape = call.a.shape
                   /\ gin.data \notin {call.a.data, g.data, result.data}
                   /\ \A pos \in Positions(call.a.shape) :
                         LET Q == {q \in Positions(g.shape) :
                                      GatherSource(heap, call.index_array, CallAx, q) = pos}
                         IN Elem(heap, gin, pos) = SumOver(Q, [q \in Q |-> Elem(heap, g, q)])
                   /\ Inner(heap, result, g) = Inner(heap, call.a, gin)
    /\ (/\ call.op = "AxisAddAt"
        /\ call.a.dtype = call.b.dtype
        /\ IndicesInRange(call.heap, call.index_array, call.a.shape[call.axis + 1])) =>
          /\ ~Failed
          /\ \A n \in DOMAIN grads :
                graph[grads[n].closure].line = 135 =>
                    LET gin == grads[n].gin
                        gout == gouts[GoutOf(grads[n].closure)].gout
                    IN /\ gout.shape = call.a.shape
                       /\ gin.shape = call.b.shape
                       /\ \A q \in Positions(gin.shape) :
                             Elem(heap, gin, q)
                               = Elem(heap, gout,
                                      GatherSource(heap, call.index_array, call.axis, q))

\* Take's closure ran for a of shape (2,) and indices [0, 0]: the gradients
\* 1 and 2 of the two output positions are summed into input position 0.
C8_Witness ==
    /\ IsTakeCall
    /\ call.a.shape = <<2>>
    /\ call.index_array.shape = <<2>>
    /\ heap[call.index_array.data] = (0 :> 0 @@ 1 :> 0)
    /\ Len(grads) = 1
    /\ heap[gouts[1].gout.data] = (0 :> 1 @@ 1 :> 2)
    /\ heap[grads[1].gin.data] = (0 :> 3 @@ 1 :> 0)

\* The closure of the axis form of AddAt for b ran and gathered from gout.
C8_WitnessAddAtBackward ==
    /\ call.op = "AxisAddAt"
    /\ call.a.shape = <<2, 2>>
    /\ call.axis = 1
    /\ call.index_array.shape = <<2>>
    /\ heap[call.index_array.data] = (0 :> 1 @@ 1 :> 1)
    /\ \E n \in DOMAIN grads :
          /\ graph[grads[n].closure].line = 135
          /\ heap[grads[n].gin.data] = (0 :> 2 @@ 1 :> 2 @@ 2 :> 4 @@ 3 :> 4)

\* ------------------------------------------------------ backward closures

\* The inputs of the call that require gradients.
Tracked ==
    (IF call.a.grad THEN {"a"} ELSE {})
    \cup (IF call.op \in {"AddAt", "AxisAddAt"} /\ call.b.grad THEN {"b"} ELSE {})

\* What closure c may hold: the values its operation captured at call time.
CapturedAtCallTime(c) ==
    /\ c.id = 1
    /\ c.out = [result EXCEPT !.grad = TRUE]
    /\ CASE call.op = "At" ->
              /\ c.line = 101
              /\ c.indices = call.indices
              /\ c.a_shape = call.a.shape
              /\ c.a_dtype = call.a.dtype
         [] call.op = "AddAt" ->
              /\ c.line = (IF c.input = "a" THEN 47 ELSE 50)
              /\ c.indices = (IF c.input = "a" THEN <<>> ELSE call.indices)
         [] call.op = "Take" ->
              /\ c.line = 167
              /\ c.index_array = call.index_array
              /\ c.axis = CallAx
              /\ c.a_shape = call.a.shape
         [] OTHER ->
              /\ c.line = (IF c.input = "a" THEN 132 ELSE 135)
              /\ c.input = "b" => (c.index_array = call.index_array /\ c.axis = call.axis)

\* C9: a forward call registers closures only in the step that returns its
\* computed output; when it has returned there is exactly one closure for
\* each input that requires gradients and none for any other (At and Take:
\* a; AddAt: a and b); a closure holds the values captured at call time and
\* is never changed; no closure runs before the call has returned, and the
\* calls a closure body makes register nothing.
C9_ClosureRegistration ==
    /\ [](/\ result = NoArray =>
                (graph = <<>> /\ ran = {} /\ gouts = <<>> /\ grads = <<>> /\ bw = 0)
          /\ result # NoArray =>
                /\ {graph[i].input : i \in DOMAIN graph} = Tracked
                /\ Len(graph) = Cardinality(Tracked)
                /\ \A i \in DOMAIN graph : CapturedAtCallTime(graph[i])
                /\ result.grad = (Tracked # {}))
    /\ [][/\ graph' # graph =>
                /\ graph = <<>>
                /\ result = NoArray
                /\ result' # NoArray
                /\ heap' = heap
                /\ pc \in {"at_backward", "addat_backward", "take_backward",
                           "axis_addat_backward"}
                /\ cont = <<"main">>
          /\ ran' # ran => (pc = "idle" /\ result # NoArray /\ graph' = graph)
         ]_vars

\* The view form of AddAt registered one closure for a and one for b, and
\* the engine has run both.
C9_Witness ==
    /\ call.op = "AddAt"
    /\ call.a.grad
    /\ call.b.grad
    /\ Len(graph) = 2
    /\ ran = {1, 2}
    /\ Len(grads) = 2
    /\ pc = "idle"

\* Control is inside the closure Take registered.
InTakeBackward == bw # 0 /\ graph[bw].line = 167

\* C10: inside the closure Take registered, the axis form of AddAt is
\* entered with 0 <= axis < rank of the zero array, b.rank = indices.rank +
\* a.rank - 1 and the zero array's dtype equal to gout's, so neither
\* assertion fails and no error is thrown.
C10_TakeBackwardPreconditions ==
    InTakeBackward =>
        /\ pc \notin {"assert", "error", "fault"}
        /\ pc = "axis_addat_check" =>
              /\ 0 <= aax.axis
              /\ aax.axis < Ndim(aax.a)
              /\ Ndim(aax.b) = Ndim(aax.indices) + Ndim(aax.a) - 1
              /\ aax.a.dtype = aax.b.dtype
              /\ aax.a.shape = call.a.shape
              /\ aax.b.shape = result.shape

\* Take was called with a negative axis and a rank-0 index array, and its
\* closure has passed the checks of AddAt.
C10_Witness ==
    /\ InTakeBackward
    /\ call.axis < 0
    /\ Ndim(call.index_array) = 0
    /\ Ndim(call.a) = 2
    /\ pc = "axis_addat_scatter"

====
